---- MODULE Spec2Model ----
(***************************************************************************)
(* A model of hound's WAV reader (src/src/read.rs): the primitive byte     *)
(* reader (ReadExt), the chunk scanner, the fmt interpreter, the container *)
(* driver (WavReader::new) and the streaming sample iterator (WavSamples). *)
(* A behaviour opens one byte source and then consumes samples from it.    *)
(* A second specification follows one read_into call, read by read.        *)
(***************************************************************************)
EXTENDS Integers, Sequences, FiniteSets, TLC

VARIABLES
    file,             \* the bytes of the source handed to WavReader::new
    chunks,           \* the chunk layout the file was written from (never read by the reader)
    pos,              \* cursor of the source `reader: R` (bytes consumed so far)
    pc,               \* position of the program: new, scan, chunk, data, reader, iter, failed
                      \* (read_into, ok, err while one read_into call is followed)
    header,           \* the ChunkHeader last returned by read_chunk_header
    spec_opt,         \* read_until_data's `spec_opt`: <<>> is None, <<s>> is Some(s)
    data_len,         \* the data chunk length returned by read_until_data
    spec,             \* WavReader.spec
    bytes_per_sample, \* WavReader.bytes_per_sample
    num_samples,      \* WavReader.num_samples
    samples_read,     \* WavReader.samples_read
    sample_type,      \* the S of the WavSamples<R, S> the caller acquires ("none" before the first)
    out,              \* every item next() returned Some(..) for, in order, with its type S
    last_next,        \* what the last next() of the current WavSamples returned: "none yet", "Some", "None"
    err,              \* the error new() returned (or the panic it aborted with)
    buf,              \* read_into's `buf`, the caller's buffer (<<>> while no read_into is followed)
    filled,           \* read_into's local `n`: the bytes of buf filled so far
    reads             \* what each `self.read` call of the read_into followed returned, in order

vars == <<file, chunks, pos, pc, header, spec_opt, data_len, spec, bytes_per_sample,
          num_samples, samples_read, sample_type, out, last_next, err, buf, filled, reads>>

(***************************************************************************)
(* Bounds of the model.                                                    *)
(***************************************************************************)
MaxChunks == 3        \* chunks in a file, after the RIFF/WAVE preamble
MaxCut == 1           \* bytes missing at the end of a truncated file
MaxSize == 4          \* length of the buffer handed to read_into

Min(a, b) == IF a < b THEN a ELSE b

(***************************************************************************)
(* Little-endian encoders, used only to write the input files.             *)
(***************************************************************************)
LE16(x) == <<x % 256, (x \div 256) % 256>>
LE32(x) == <<x % 256, (x \div 256) % 256, (x \div 65536) % 256, (x \div 16777216) % 256>>

TagRIFF == <<82, 73, 70, 70>>
TagWAVE == <<87, 65, 86, 69>>
TagFmt  == <<102, 109, 116, 32>>
TagData == <<100, 97, 116, 97>>
TagLIST == <<76, 73, 83, 84>>
TagRIFX == <<82, 73, 70, 88>>
TagAVI  == <<65, 86, 73, 32>>

\* KSDATAFORMAT_SUBTYPE_PCM
PcmGuid == <<1, 0, 0, 0, 0, 0, 16, 0, 128, 0, 0, 170, 0, 56, 155, 113>>
\* KSDATAFORMAT_SUBTYPE_IEEE_FLOAT, a sub-format the reader does not support
FloatGuid == <<3, 0, 0, 0, 0, 0, 16, 0, 128, 0, 0, 170, 0, 56, 155, 113>>

(***************************************************************************)
(* ReadExt: the primitive byte reader.                                     *)
(***************************************************************************)
\* io::Read::read on a source whose remaining bytes are all available:
\* it delivers as many bytes as the buffer takes, 0 at the end of the stream.
source_read(f, p, k) == Min(k, Len(f) - p)

RECURSIVE read_into_loop(_, _, _, _)
read_into_loop(f, p, n, size) ==
    IF n < size
    THEN LET progress == source_read(f, p, size - n)
         IN  IF progress > 0
             THEN read_into_loop(f, p + progress, n + progress, size)
             ELSE [ok |-> FALSE, pos |-> p, buf |-> <<>>]
    ELSE [ok |-> TRUE, pos |-> p, buf |-> SubSeq(f, p - size + 1, p)]

read_into(f, p, size) == read_into_loop(f, p, 0, size)

read_bytes(f, p, n) == read_into(f, p, n)

read_le_u16(f, p) ==
    LET r == read_into(f, p, 2)
    IN  IF r.ok
        THEN [ok |-> TRUE, pos |-> r.pos, val |-> r.buf[2] * 256 + r.buf[1]]
        ELSE [ok |-> FALSE, pos |-> r.pos, val |-> 0]

\* a cast that keeps the unsigned value
as_i16_unsigned(x) == x

\* `x as i16`: the same 16 bits read as two's complement
as_i16(x) == IF x >= 32768 THEN x - 65536 ELSE x

read_le_i16(f, p) ==
    LET r == read_le_u16(f, p)
    IN  [ok |-> r.ok, pos |-> r.pos, val |-> IF r.ok THEN as_i16(r.val) ELSE 0]

read_le_u32(f, p) ==
    LET r == read_into(f, p, 4)
    IN  IF r.ok
        THEN [ok |-> TRUE, pos |-> r.pos,
              val |-> r.buf[4] * 16777216 + r.buf[3] * 65536 + r.buf[2] * 256 + r.buf[1]]
        ELSE [ok |-> FALSE, pos |-> r.pos, val |-> 0]

(***************************************************************************)
(* Errors.  Panic is not an Error value: it is the abort of an arithmetic  *)
(* fault (division by zero, or overflow in a build with overflow checks).  *)
(***************************************************************************)
NoError == [kind |-> "none", msg |-> ""]
FormatError(m) == [kind |-> "FormatError", msg |-> m]
Unsupported == [kind |-> "Unsupported", msg |-> ""]
IoError == [kind |-> "IoError", msg |-> "Failed to read enough bytes."]
Panic(m) == [kind |-> "Panic", msg |-> m]

\* read_wave_header that takes any form type for WAVE
read_wave_header_any_form(f, p) ==
    LET riff == read_bytes(f, p, 4)
        file_len == read_le_u32(f, riff.pos)
        wave == read_bytes(f, file_len.pos, 4)
    IN  IF ~riff.ok THEN [err |-> IoError, pos |-> riff.pos]
        ELSE IF riff.buf # TagRIFF THEN [err |-> FormatError("no RIFF tag found"), pos |-> riff.pos]
        ELSE IF ~file_len.ok THEN [err |-> IoError, pos |-> file_len.pos]
        ELSE IF ~wave.ok THEN [err |-> IoError, pos |-> wave.pos]
        ELSE [err |-> NoError, pos |-> wave.pos]

(***************************************************************************)
(* WavReader::read_wave_header                                             *)
(***************************************************************************)
read_wave_header(f, p) ==
    LET riff == read_bytes(f, p, 4)
        file_len == read_le_u32(f, riff.pos)
        wave == read_bytes(f, file_len.pos, 4)
    IN  IF ~riff.ok THEN [err |-> IoError, pos |-> riff.pos]
        ELSE IF riff.buf # TagRIFF THEN [err |-> FormatError("no RIFF tag found"), pos |-> riff.pos]
        ELSE IF ~file_len.ok THEN [err |-> IoError, pos |-> file_len.pos]
        ELSE IF ~wave.ok THEN [err |-> IoError, pos |-> wave.pos]
        ELSE IF wave.buf # TagWAVE THEN [err |-> FormatError("no WAVE tag found"), pos |-> wave.pos]
        ELSE [err |-> NoError, pos |-> wave.pos]

(***************************************************************************)
(* WavReader::read_chunk_header                                            *)
(***************************************************************************)
NoHeader == [kind |-> "none", len |-> 0]

\* a chunk header reader that reports the end of the source as a missing chunk
read_chunk_header_eof_is_format_error(f, p) ==
    LET kind_str == read_into(f, p, 4)
        len_r == read_le_u32(f, kind_str.pos)
        kind == IF kind_str.buf = TagFmt THEN "Fmt"
                ELSE IF kind_str.buf = TagData THEN "Data"
                ELSE "Unknown"
    IN  IF ~kind_str.ok
        THEN [err |-> FormatError("missing data chunk"), pos |-> kind_str.pos, header |-> NoHeader]
        ELSE IF ~len_r.ok THEN [err |-> IoError, pos |-> len_r.pos, header |-> NoHeader]
        ELSE [err |-> NoError, pos |-> len_r.pos, header |-> [kind |-> kind, len |-> len_r.val]]

read_chunk_header(f, p) ==
    LET kind_str == read_into(f, p, 4)
        len_r == read_le_u32(f, kind_str.pos)
        kind == IF kind_str.buf = TagFmt THEN "Fmt"
                ELSE IF kind_str.buf = TagData THEN "Data"
                ELSE "Unknown"
    IN  IF ~kind_str.ok THEN [err |-> IoError, pos |-> kind_str.pos, header |-> NoHeader]
        ELSE IF ~len_r.ok THEN [err |-> IoError, pos |-> len_r.pos, header |-> NoHeader]
        ELSE [err |-> NoError, pos |-> len_r.pos, header |-> [kind |-> kind, len |-> len_r.val]]

(***************************************************************************)
(* WavSpec and WavSpecEx                                                   *)
(***************************************************************************)
WavSpec(c, r, b) == [channels |-> c, sample_rate |-> r, bits_per_sample |-> b]
WavSpecEx(s, b) == [spec |-> s, bytes_per_sample |-> b]
NoSpec == WavSpec(0, 0, 0)
NoSpecEx == WavSpecEx(NoSpec, 0)

(***************************************************************************)
(* Fixed-width arithmetic of the fmt cross-check.                          *)
(***************************************************************************)
\* u16 `q * 8`: the wrapped value and whether it overflowed 16 bits
mul8_u16(q) == [val |-> (q * 8) % 65536, ovf |-> q * 8 > 65535]

\* the four little-endian bytes of a u32
bytes_u32(x) == <<x % 256, (x \div 256) % 256, (x \div 65536) % 256, (x \div 16777216) % 256>>

\* u32 `a as u32 * b` for a u16 a, by long multiplication over the bytes of
\* b: the wrapped product as four little-endian bytes and whether it
\* overflowed 32 bits
mul_u32(a, b) ==
    LET bb == bytes_u32(b)
        t1 == a * bb[1]
        t2 == a * bb[2] + t1 \div 256
        t3 == a * bb[3] + t2 \div 256
        t4 == a * bb[4] + t3 \div 256
    IN  [bytes |-> <<t1 % 256, t2 % 256, t3 % 256, t4 % 256>>, ovf |-> t4 \div 256 > 0]

\* The condition of read_fmt_chunk's first `if`, evaluated left to right
\* with short-circuit `||`.  checked = the build traps arithmetic overflow.
\* "panic" = the evaluation aborts, "inconsistent" = the condition is true.
fmt_cross_check(n_channels, n_samples_per_sec, n_bytes_per_sec, block_align, bits_per_sample, checked) ==
    IF n_channels = 0 THEN "panic"
    ELSE LET m == mul8_u16(block_align \div n_channels)
             prod == mul_u32(block_align, n_samples_per_sec)
         IN  IF m.ovf /\ checked THEN "panic"
             ELSE IF bits_per_sample # m.val THEN "inconsistent"
             ELSE IF prod.ovf /\ checked THEN "panic"
             ELSE IF bytes_u32(n_bytes_per_sec) # prod.bytes THEN "inconsistent"
             ELSE "consistent"

(***************************************************************************)
(* WavReader::read_wave_format_pcm                                         *)
(***************************************************************************)
read_wave_format_pcm(chunk_len, s) ==
    IF chunk_len # 16
    THEN [err |-> FormatError("unexpected fmt chunk size"), spec_ex |-> NoSpecEx]
    ELSE IF s.bits_per_sample # 8 /\ s.bits_per_sample # 16
    THEN [err |-> FormatError("bits per sample is not 8 or 16"), spec_ex |-> NoSpecEx]
    ELSE [err |-> NoError, spec_ex |-> WavSpecEx(s, s.bits_per_sample \div 8)]

(***************************************************************************)
(* WavReader::read_wave_format_extensible                                  *)
(***************************************************************************)
\* read_wave_format_extensible that accepts every sub-format
read_wave_format_extensible_any_guid(f, p, chunk_len, s) ==
    LET cb_size == read_le_u16(f, p)
        valid_bits_per_sample == read_le_u16(f, cb_size.pos)
        channel_mask == read_le_u32(f, valid_bits_per_sample.pos)
        subformat == read_into(f, channel_mask.pos, 16)
    IN  IF chunk_len < 40
        THEN [err |-> FormatError("unexpected fmt chunk size"), pos |-> p, spec_ex |-> NoSpecEx]
        ELSE IF ~cb_size.ok
        THEN [err |-> IoError, pos |-> cb_size.pos, spec_ex |-> NoSpecEx]
        ELSE IF cb_size.val # 22
        THEN [err |-> FormatError("unexpected WAVEFORMATEXTENSIBLE size"), pos |-> cb_size.pos,
              spec_ex |-> NoSpecEx]
        ELSE IF ~valid_bits_per_sample.ok
        THEN [err |-> IoError, pos |-> valid_bits_per_sample.pos, spec_ex |-> NoSpecEx]
        ELSE IF ~channel_mask.ok
        THEN [err |-> IoError, pos |-> channel_mask.pos, spec_ex |-> NoSpecEx]
        ELSE IF ~subformat.ok
        THEN [err |-> IoError, pos |-> subformat.pos, spec_ex |-> NoSpecEx]
        ELSE [err |-> NoError, pos |-> subformat.pos,
              spec_ex |-> WavSpecEx(WavSpec(s.channels, s.sample_rate, valid_bits_per_sample.val),
                                    s.bits_per_sample \div 8)]

read_wave_format_extensible(f, p, chunk_len, s) ==
    LET cb_size == read_le_u16(f, p)
        valid_bits_per_sample == read_le_u16(f, cb_size.pos)
        channel_mask == read_le_u32(f, valid_bits_per_sample.pos)
        subformat == read_into(f, channel_mask.pos, 16)
    IN  IF chunk_len < 40
        THEN [err |-> FormatError("unexpected fmt chunk size"), pos |-> p, spec_ex |-> NoSpecEx]
        ELSE IF ~cb_size.ok
        THEN [err |-> IoError, pos |-> cb_size.pos, spec_ex |-> NoSpecEx]
        ELSE IF cb_size.val # 22
        THEN [err |-> FormatError("unexpected WAVEFORMATEXTENSIBLE size"), pos |-> cb_size.pos,
              spec_ex |-> NoSpecEx]
        ELSE IF ~valid_bits_per_sample.ok
        THEN [err |-> IoError, pos |-> valid_bits_per_sample.pos, spec_ex |-> NoSpecEx]
        ELSE IF ~channel_mask.ok
        THEN [err |-> IoError, pos |-> channel_mask.pos, spec_ex |-> NoSpecEx]
        ELSE IF ~subformat.ok
        THEN [err |-> IoError, pos |-> subformat.pos, spec_ex |-> NoSpecEx]
        ELSE IF subformat.buf # PcmGuid
        THEN [err |-> Unsupported, pos |-> subformat.pos, spec_ex |-> NoSpecEx]
        ELSE [err |-> NoError, pos |-> subformat.pos,
              spec_ex |-> WavSpecEx(WavSpec(s.channels, s.sample_rate, valid_bits_per_sample.val),
                                    s.bits_per_sample \div 8)]

(***************************************************************************)
(* WavReader::read_fmt_chunk                                               *)
(***************************************************************************)
\* read_fmt_chunk that reads every tag it does not know as PCM
read_fmt_chunk_any_tag(f, p, chunk_len, checked) ==
    LET format_tag == read_le_u16(f, p)
        n_channels == read_le_u16(f, format_tag.pos)
        n_samples_per_sec == read_le_u32(f, n_channels.pos)
        n_bytes_per_sec == read_le_u32(f, n_samples_per_sec.pos)
        block_align == read_le_u16(f, n_bytes_per_sec.pos)
        bits_per_sample == read_le_u16(f, block_align.pos)
        p16 == bits_per_sample.pos
        check == fmt_cross_check(n_channels.val, n_samples_per_sec.val, n_bytes_per_sec.val,
                                 block_align.val, bits_per_sample.val, checked)
        s == WavSpec(n_channels.val, n_samples_per_sec.val, bits_per_sample.val)
        pcm == read_wave_format_pcm(chunk_len, s)
    IN  IF chunk_len < 16
        THEN [err |-> FormatError("invalid fmt chunk size"), pos |-> p, spec_ex |-> NoSpecEx]
        ELSE IF ~(format_tag.ok /\ n_channels.ok /\ n_samples_per_sec.ok /\ n_bytes_per_sec.ok
                  /\ block_align.ok /\ bits_per_sample.ok)
        THEN [err |-> IoError, pos |-> p16, spec_ex |-> NoSpecEx]
        ELSE IF check = "panic"
        THEN [err |-> Panic("arithmetic fault in the fmt cross-check"), pos |-> p16,
              spec_ex |-> NoSpecEx]
        ELSE IF check = "inconsistent"
        THEN [err |-> FormatError("inconsistent fmt chunk"), pos |-> p16, spec_ex |-> NoSpecEx]
        ELSE IF bits_per_sample.val % 8 # 0
        THEN [err |-> FormatError("bits per sample is not a multiple of 8"), pos |-> p16,
              spec_ex |-> NoSpecEx]
        ELSE IF format_tag.val = 1
        THEN [err |-> pcm.err, pos |-> p16, spec_ex |-> pcm.spec_ex]
        ELSE IF format_tag.val = 65534
        THEN read_wave_format_extensible(f, p16, chunk_len, s)
        ELSE [err |-> pcm.err, pos |-> p16, spec_ex |-> pcm.spec_ex]

read_fmt_chunk(f, p, chunk_len, checked) ==
    LET format_tag == read_le_u16(f, p)
        n_channels == read_le_u16(f, format_tag.pos)
        n_samples_per_sec == read_le_u32(f, n_channels.pos)
        n_bytes_per_sec == read_le_u32(f, n_samples_per_sec.pos)
        block_align == read_le_u16(f, n_bytes_per_sec.pos)
        bits_per_sample == read_le_u16(f, block_align.pos)
        p16 == bits_per_sample.pos
        check == fmt_cross_check(n_channels.val, n_samples_per_sec.val, n_bytes_per_sec.val,
                                 block_align.val, bits_per_sample.val, checked)
        s == WavSpec(n_channels.val, n_samples_per_sec.val, bits_per_sample.val)
        pcm == read_wave_format_pcm(chunk_len, s)
    IN  IF chunk_len < 16
        THEN [err |-> FormatError("invalid fmt chunk size"), pos |-> p, spec_ex |-> NoSpecEx]
        ELSE IF ~(format_tag.ok /\ n_channels.ok /\ n_samples_per_sec.ok /\ n_bytes_per_sec.ok
                  /\ block_align.ok /\ bits_per_sample.ok)
        THEN [err |-> IoError, pos |-> p16, spec_ex |-> NoSpecEx]
        ELSE IF check = "panic"
        THEN [err |-> Panic("arithmetic fault in the fmt cross-check"), pos |-> p16,
              spec_ex |-> NoSpecEx]
        ELSE IF check = "inconsistent"
        THEN [err |-> FormatError("inconsistent fmt chunk"), pos |-> p16, spec_ex |-> NoSpecEx]
        ELSE IF bits_per_sample.val % 8 # 0
        THEN [err |-> FormatError("bits per sample is not a multiple of 8"), pos |-> p16,
              spec_ex |-> NoSpecEx]
        ELSE IF format_tag.val = 1
        THEN [err |-> pcm.err, pos |-> p16, spec_ex |-> pcm.spec_ex]
        ELSE IF format_tag.val = 65534
        THEN read_wave_format_extensible(f, p16, chunk_len, s)
        ELSE [err |-> Unsupported, pos |-> p16, spec_ex |-> NoSpecEx]

(***************************************************************************)
(* Sample::read, the sample-decode capability (one implementation per      *)
(* sample type S): it reads the natural width of S from the source.        *)
(***************************************************************************)
SampleTypes == {"u8", "i16"}

sample_read(S, f, p, bits) ==
    IF S = "i16"
    THEN read_le_i16(f, p)
    ELSE LET r == read_into(f, p, 1)
         IN  [ok |-> r.ok, pos |-> r.pos, val |-> IF r.ok THEN r.buf[1] ELSE 0]

(***************************************************************************)
(* The input files.  A file is the 12-byte preamble followed by chunks,    *)
(* possibly with its last bytes missing.                                   *)
(***************************************************************************)
Fields(c, r, bps, ba, b) == [ch |-> c, rate |-> r, bps |-> bps, ba |-> ba, bits |-> b]

\* the six fixed fields of a fmt chunk that the catalogue draws from
FmtFields ==
    { Fields(1, 44100, 88200, 2, 16),     \* mono 16 bit 44100 Hz (the test sample)
      Fields(1, 8000, 16000, 2, 16),      \* mono 16 bit 8000 Hz
      Fields(2, 8000, 16000, 2, 8),       \* stereo 8 bit
      Fields(1, 8000, 24000, 3, 24),      \* mono, 24 bits of storage
      Fields(1, 8000, 32000, 4, 32),      \* mono, 32 bits of storage
      Fields(0, 8000, 16000, 2, 16),      \* no channels
      Fields(0, 8000, 24000, 3, 24),      \* no channels, 24 bits of storage
      Fields(1, 8000, 0, 0, 0),           \* no storage bits
      Fields(1, 8000, 32000, 4, 16),      \* block align disagrees with bits per sample
      Fields(1, 8000, 8000, 2, 16),       \* bytes per second disagrees
      Fields(1, 1, 8193, 8193, 8),        \* 8193 * 8 wraps to 8 in 16 bits
      Fields(256, 16777216, 0, 256, 8) }  \* 256 * 2^24 wraps to 0 in 32 bits

\* the fields that every layout and every extension is combined with
CoreFields == { Fields(1, 44100, 88200, 2, 16), Fields(1, 8000, 32000, 4, 32) }

FormatTags == {1, 65534, 3}     \* PCM, EXTENSIBLE, IEEE_FLOAT

\* the extension of a WAVEFORMATEXTENSIBLE: cbSize, valid bits relative to
\* the storage bits, sub-format
Ext(cb, dv, g) == [cb |-> cb, dv |-> dv, guid |-> g]
DefaultExt == Ext(22, 0, PcmGuid)
ExtVariants ==
    { DefaultExt, Ext(22, -4, PcmGuid), Ext(22, 8, PcmGuid), Ext(22, 0, FloatGuid),
      Ext(24, 0, PcmGuid), Ext(24, 0, FloatGuid) }

\* body layouts: 14, 16, 18 (WAVEFORMATEX, cbSize 0), 40, 42 and 48 bytes
Layouts == {"b14", "b16", "b18", "b40", "b42", "b48"}

FmtDesc(t, fl, l, e) == [tag |-> t, fields |-> fl, layout |-> l, ext |-> e]

FmtDescs ==
    { FmtDesc(t, fl, "b16", DefaultExt) : t \in {1, 3}, fl \in FmtFields }
    \cup { FmtDesc(65534, fl, "b40", DefaultExt) : fl \in FmtFields }
    \cup { FmtDesc(t, Fields(1, 44100, 88200, 2, 16), l, DefaultExt) : t \in FormatTags, l \in Layouts }
    \cup { FmtDesc(65534, fl, "b40", e) : fl \in CoreFields, e \in ExtVariants }
    \cup { FmtDesc(65534, Fields(1, 8000, 8000, 2, 16), "b40", Ext(22, 0, FloatGuid)),
           FmtDesc(1, Fields(0, 8000, 16000, 2, 16), "b18", DefaultExt) }

ValidBits(d) == IF d.fields.bits + d.ext.dv < 0 THEN 0 ELSE d.fields.bits + d.ext.dv

FmtFixed(d) ==
    LE16(d.tag) \o LE16(d.fields.ch) \o LE32(d.fields.rate) \o LE32(d.fields.bps)
    \o LE16(d.fields.ba) \o LE16(d.fields.bits)

FmtExtension(d) == LE16(d.ext.cb) \o LE16(ValidBits(d)) \o LE32(3) \o d.ext.guid

FmtBody(d) ==
    CASE d.layout = "b14" -> SubSeq(FmtFixed(d), 1, 14)
      [] d.layout = "b16" -> FmtFixed(d)
      [] d.layout = "b18" -> FmtFixed(d) \o LE16(0)
      [] d.layout = "b40" -> FmtFixed(d) \o FmtExtension(d)
      [] d.layout = "b42" -> FmtFixed(d) \o FmtExtension(d) \o <<0, 0>>
      [] d.layout = "b48" -> FmtFixed(d) \o FmtExtension(d) \o TagData \o LE32(0)

NoDesc == FmtDesc(0, Fields(0, 0, 0, 0, 0), "b16", DefaultExt)

FmtChunk(d) == [kind |-> "fmt", d |-> d, body |-> FmtBody(d)]
DataChunk(b) == [kind |-> "data", d |-> NoDesc, body |-> b]
UnknownChunk(b) == [kind |-> "LIST", d |-> NoDesc, body |-> b]

\* the samples 2, -3, 5, -7 as little-endian 16-bit values
Data8 == <<2, 0, 253, 255, 5, 0, 249, 255>>
Data3 == <<1, 2, 128>>

FmtA == FmtChunk(FmtDesc(1, Fields(1, 44100, 88200, 2, 16), "b16", DefaultExt))

PreChunks == {UnknownChunk(<<7, 7, 7>>), FmtA}
PostChunks == {DataChunk(Data8), DataChunk(Data3), FmtA}
FocusChunks == {FmtChunk(d) : d \in FmtDescs} \cup {DataChunk(Data8), DataChunk(<<>>)}

SeqsUpTo(S, n) == UNION {[1..k -> S] : k \in 0..n}

ChunkLists ==
    { pre \o <<c>> \o post :
        c \in FocusChunks,
        pre \in SeqsUpTo(PreChunks, MaxChunks - 1),
        post \in SeqsUpTo(PostChunks, MaxChunks - 1) }

ChunkTag(c) == IF c.kind = "fmt" THEN TagFmt ELSE IF c.kind = "data" THEN TagData ELSE TagLIST

ChunkBytes(c) == ChunkTag(c) \o LE32(Len(c.body)) \o c.body

RECURSIVE ChunksBytes(_)
ChunksBytes(cs) == IF cs = <<>> THEN <<>> ELSE ChunkBytes(Head(cs)) \o ChunksBytes(Tail(cs))

Preamble(riff, file_len, wave) == riff \o LE32(file_len) \o wave

Truncate(bs, cut) == SubSeq(bs, 1, IF Len(bs) > cut THEN Len(bs) - cut ELSE 0)

\* a well-formed preamble in front of every chunk list
GoodFiles ==
    { [chunks |-> cs, file |-> Truncate(Preamble(TagRIFF, 4 + Len(ChunksBytes(cs)), TagWAVE)
                                        \o ChunksBytes(cs), cut)] :
        cs \in {l \in ChunkLists : Len(l) <= MaxChunks}, cut \in 0..MaxCut }

\* every preamble, with a right or a wrong file length, in front of a few chunk lists
PreambleFiles ==
    { [chunks |-> cs, file |-> Truncate(Preamble(riff, file_len, wave) \o ChunksBytes(cs), cut)] :
        riff \in {TagRIFF, TagRIFX}, wave \in {TagWAVE, TagAVI}, file_len \in {0, 4 + 44, 1000},
        cs \in {<<>>, <<FmtA, DataChunk(Data8)>>, <<DataChunk(Data8)>>},
        cut \in 0..MaxCut }

Files == GoodFiles \cup PreambleFiles

(***************************************************************************)
(* The state after `WavReader::new(reader)` has been entered.              *)
(***************************************************************************)
Init ==
    /\ \E fl \in Files : file = fl.file /\ chunks = fl.chunks
    /\ pos = 0
    /\ pc = "new"
    /\ header = NoHeader
    /\ spec_opt = <<>>
    /\ data_len = 0
    /\ spec = NoSpec
    /\ bytes_per_sample = 0
    /\ num_samples = 0
    /\ samples_read = 0
    /\ sample_type = "none"
    /\ out = <<>>
    /\ last_next = "none yet"
    /\ err = NoError
    /\ buf = <<>>
    /\ filled = 0
    /\ reads = <<>>

read_into_locals == <<buf, filled, reads>>
reader_fields == <<spec, bytes_per_sample, num_samples, samples_read>>
iter_fields == <<sample_type, out, last_next>>

\* new: try!(WavReader::read_wave_header(&mut reader))
ReadWaveHeader ==
    /\ pc = "new"
    /\ LET r == read_wave_header(file, pos)
       IN  /\ pos' = r.pos
           /\ err' = r.err
           /\ pc' = IF r.err = NoError THEN "scan" ELSE "failed"
    /\ UNCHANGED <<read_into_locals, file, chunks, header, spec_opt, data_len, reader_fields, iter_fields>>

\* read_until_data: the top of the loop, try!(read_chunk_header)
ReadChunkHeader ==
    /\ pc = "scan"
    /\ LET r == read_chunk_header(file, pos)
       IN  /\ pos' = r.pos
           /\ err' = r.err
           /\ header' = r.header
           /\ pc' = IF r.err = NoError THEN "chunk" ELSE "failed"
    /\ UNCHANGED <<read_into_locals, file, chunks, spec_opt, data_len, reader_fields, iter_fields>>

\* a Fmt arm that keeps the first fmt chunk it decoded
ChunkFmt_keep_first ==
    /\ pc = "chunk"
    /\ header.kind = "Fmt"
    /\ \E checked \in BOOLEAN :
         LET r == read_fmt_chunk(file, pos, header.len, checked)
         IN  /\ pos' = r.pos
             /\ err' = r.err
             /\ spec_opt' = IF r.err = NoError /\ spec_opt = <<>> THEN <<r.spec_ex>> ELSE spec_opt
             /\ pc' = IF r.err = NoError THEN "scan" ELSE "failed"
    /\ UNCHANGED <<read_into_locals, file, chunks, header, data_len, reader_fields, iter_fields>>

\* read_until_data: the ChunkKind::Fmt arm
ChunkFmt ==
    /\ pc = "chunk"
    /\ header.kind = "Fmt"
    /\ \E checked \in BOOLEAN :
         LET r == read_fmt_chunk(file, pos, header.len, checked)
         IN  /\ pos' = r.pos
             /\ err' = r.err
             /\ spec_opt' = IF r.err = NoError THEN <<r.spec_ex>> ELSE spec_opt
             /\ pc' = IF r.err = NoError THEN "scan" ELSE "failed"
    /\ UNCHANGED <<read_into_locals, file, chunks, header, data_len, reader_fields, iter_fields>>

\* a Data arm that passes over a data chunk header seen before any fmt chunk
ChunkData_wait_for_fmt ==
    /\ pc = "chunk"
    /\ header.kind = "Data"
    /\ IF spec_opt # <<>>
       THEN /\ data_len' = header.len
            /\ pc' = "data"
       ELSE /\ data_len' = data_len
            /\ pc' = "scan"
    /\ UNCHANGED <<read_into_locals, file, chunks, pos, header, spec_opt, reader_fields, iter_fields, err>>

\* read_until_data: the ChunkKind::Data arm
ChunkData ==
    /\ pc = "chunk"
    /\ header.kind = "Data"
    /\ IF spec_opt # <<>>
       THEN /\ data_len' = header.len
            /\ pc' = "data"
            /\ err' = err
       ELSE /\ data_len' = data_len
            /\ pc' = "failed"
            /\ err' = FormatError("missing fmt chunk")
    /\ UNCHANGED <<read_into_locals, file, chunks, pos, header, spec_opt, reader_fields, iter_fields>>

\* read_until_data: the ChunkKind::Unknown arm
ChunkUnknown ==
    /\ pc = "chunk"
    /\ header.kind = "Unknown"
    /\ LET r == read_bytes(file, pos, header.len)
       IN  /\ pos' = r.pos
           /\ err' = IF r.ok THEN err ELSE IoError
           /\ pc' = IF r.ok THEN "scan" ELSE "failed"
    /\ UNCHANGED <<read_into_locals, file, chunks, header, spec_opt, data_len, reader_fields, iter_fields>>

\* new without the check that the samples fill whole frames
new_any_length(spec_ex, dl) ==
    IF spec_ex.bytes_per_sample = 0 \/ spec_ex.spec.channels = 0
    THEN [err |-> Panic("attempted to divide by zero"), num_samples |-> 0]
    ELSE [err |-> NoError, num_samples |-> dl \div spec_ex.bytes_per_sample]

\* new: what follows read_until_data.  A division by zero aborts.
new(spec_ex, dl) ==
    IF spec_ex.bytes_per_sample = 0 \/ spec_ex.spec.channels = 0
    THEN [err |-> Panic("attempted to divide by zero"), num_samples |-> 0]
    ELSE LET n == dl \div spec_ex.bytes_per_sample
         IN  IF n % spec_ex.spec.channels # 0
             THEN [err |-> FormatError("invalid data chunk length"), num_samples |-> 0]
             ELSE [err |-> NoError, num_samples |-> n]

NewReader ==
    /\ pc = "data"
    /\ LET spec_ex == spec_opt[1]
           r == new(spec_ex, data_len)
       IN  IF r.err # NoError
           THEN /\ pc' = "failed"
                /\ err' = r.err
                /\ UNCHANGED reader_fields
           ELSE /\ pc' = "reader"
                /\ err' = err
                /\ spec' = spec_ex.spec
                /\ bytes_per_sample' = spec_ex.bytes_per_sample
                /\ num_samples' = r.num_samples
                /\ samples_read' = 0
    /\ UNCHANGED <<read_into_locals, file, chunks, pos, header, spec_opt, data_len, iter_fields>>

(***************************************************************************)
(* The accessors of a reader.                                              *)
(***************************************************************************)
duration == num_samples \div spec.channels
len == num_samples

\* samples() that starts again from the first sample
Samples_restart ==
    /\ pc = "reader"
    /\ \E S \in SampleTypes : sample_type' = S /\ (sample_type = "none" \/ sample_type = S)
    /\ pc' = "iter"
    /\ last_next' = "none yet"
    /\ samples_read' = 0
    /\ UNCHANGED <<read_into_locals, file, chunks, pos, header, spec_opt, data_len, spec, bytes_per_sample,
                   num_samples, out, err>>

\* WavReader::samples::<S>().  The caller reads a reader with one sample
\* type S, chosen at the first acquisition.
Samples ==
    /\ pc = "reader"
    /\ \E S \in SampleTypes : sample_type' = S /\ (sample_type = "none" \/ sample_type = S)
    /\ pc' = "iter"
    /\ last_next' = "none yet"
    /\ UNCHANGED <<read_into_locals, file, chunks, pos, header, spec_opt, data_len, reader_fields, out, err>>

\* size_hint that forgets what was read
size_hint_total == <<num_samples, num_samples>>

\* WavSamples::size_hint: the lower and the upper bound
size_hint == <<num_samples - samples_read, num_samples - samples_read>>

\* next that reads one sample too many
Next_one_more ==
    /\ pc = "iter"
    /\ IF samples_read <= num_samples
       THEN LET sample == sample_read(sample_type, file, pos, spec.bits_per_sample)
            IN  /\ samples_read' = samples_read + 1
                /\ pos' = sample.pos
                /\ out' = Append(out, [ok |-> sample.ok, val |-> sample.val, ty |-> sample_type])
                /\ last_next' = "Some"
       ELSE /\ last_next' = "None"
            /\ UNCHANGED <<samples_read, pos, out>>
    /\ UNCHANGED <<read_into_locals, file, chunks, pc, header, spec_opt, data_len, spec, bytes_per_sample,
                   num_samples, sample_type, err>>

\* next that ends the sequence at the first sample that fails to decode
Next_fused_on_error ==
    /\ pc = "iter"
    /\ IF samples_read < num_samples
       THEN LET sample == sample_read(sample_type, file, pos, spec.bits_per_sample)
            IN  /\ samples_read' = IF sample.ok THEN samples_read + 1 ELSE num_samples
                /\ pos' = sample.pos
                /\ out' = Append(out, [ok |-> sample.ok, val |-> sample.val, ty |-> sample_type])
                /\ last_next' = "Some"
       ELSE /\ last_next' = "None"
            /\ UNCHANGED <<samples_read, pos, out>>
    /\ UNCHANGED <<read_into_locals, file, chunks, pc, header, spec_opt, data_len, spec, bytes_per_sample,
                   num_samples, sample_type, err>>

\* next that counts the remaining samples down in num_samples
Next_counting_down ==
    /\ pc = "iter"
    /\ IF samples_read < num_samples
       THEN LET sample == sample_read(sample_type, file, pos, spec.bits_per_sample)
            IN  /\ num_samples' = num_samples - 1
                /\ pos' = sample.pos
                /\ out' = Append(out, [ok |-> sample.ok, val |-> sample.val, ty |-> sample_type])
                /\ last_next' = "Some"
       ELSE /\ last_next' = "None"
            /\ UNCHANGED <<num_samples, pos, out>>
    /\ UNCHANGED <<read_into_locals, file, chunks, pc, header, spec_opt, data_len, spec, bytes_per_sample,
                   samples_read, sample_type, err>>

\* WavSamples::next
Next_ ==
    /\ pc = "iter"
    /\ IF samples_read < num_samples
       THEN LET sample == sample_read(sample_type, file, pos, spec.bits_per_sample)
            IN  /\ samples_read' = samples_read + 1
                /\ pos' = sample.pos
                /\ out' = Append(out, [ok |-> sample.ok, val |-> sample.val, ty |-> sample_type])
                /\ last_next' = "Some"
       ELSE /\ last_next' = "None"
            /\ UNCHANGED <<samples_read, pos, out>>
    /\ UNCHANGED <<read_into_locals, file, chunks, pc, header, spec_opt, data_len, spec, bytes_per_sample,
                   num_samples, sample_type, err>>

\* the WavSamples goes out of scope: the borrow of the reader ends
DropSamples ==
    /\ pc = "iter"
    /\ pc' = "reader"
    /\ UNCHANGED <<read_into_locals, file, chunks, pos, header, spec_opt, data_len, reader_fields, iter_fields, err>>

Next ==
    \/ ReadWaveHeader
    \/ ReadChunkHeader
    \/ ChunkFmt
    \/ ChunkData
    \/ ChunkUnknown
    \/ NewReader
    \/ Samples
    \/ Next_
    \/ DropSamples

Spec == Init /\ [][Next]_vars

\* new is one sequential call: while it has not returned, its next step is taken
NewRuns == pc \in {"new", "scan", "chunk", "data"}
             /\ pc' \in {"scan", "chunk", "data", "failed", "reader"}

FairSpec == Spec /\ WF_pc(NewRuns)

(***************************************************************************)
(* ReadExt::read_into, followed call by call on a source that may deliver  *)
(* fewer bytes than it is asked for.  `file` is the source, `pos` its      *)
(* cursor, and pc is "read_into" in the loop, "ok" after Ok(()) and "err"  *)
(* after Err.                                                              *)
(***************************************************************************)
\* an error that `self.read` itself returns, which try! passes on
SourceError == [kind |-> "IoError", msg |-> "error of the source"]

\* io::Read::read on a slice of k bytes with avail bytes left in the source:
\* Ok(progress) with progress no more than the slice takes and the source has, or Err
SourceReads(k, avail) ==
    {[ok |-> TRUE, progress |-> x] : x \in 0..Min(k, avail)} \cup {[ok |-> FALSE, progress |-> 0]}

\* the state when read_into(&mut buf) is entered
ReadIntoInit ==
    /\ \E l \in 0..(MaxSize + 1) : file = [i \in 1..l |-> 10 * i]
    /\ pos \in 0..1
    /\ pos <= Len(file)
    /\ \E k \in 0..MaxSize, old \in {0, 255} : buf = [i \in 1..k |-> old]
    /\ filled = 0
    /\ reads = <<>>
    /\ pc = "read_into"
    /\ chunks = <<>>
    /\ header = NoHeader
    /\ spec_opt = <<>>
    /\ data_len = 0
    /\ spec = NoSpec
    /\ bytes_per_sample = 0
    /\ num_samples = 0
    /\ samples_read = 0
    /\ sample_type = "none"
    /\ out = <<>>
    /\ last_next = "none yet"
    /\ err = NoError

\* a pass of the loop that hands the whole buffer to read again
ReadIntoStep_whole_buffer ==
    /\ pc = "read_into"
    /\ filled < Len(buf)
    /\ \E r \in SourceReads(Len(buf), Len(file) - pos) :
          /\ reads' = Append(reads, r)
          /\ IF ~r.ok
             THEN /\ pc' = "err"
                  /\ err' = SourceError
                  /\ UNCHANGED <<pos, buf, filled>>
             ELSE IF r.progress > 0
             THEN /\ filled' = filled + r.progress
                  /\ pos' = pos + r.progress
                  /\ buf' = [i \in 1..Len(buf) |->
                               IF i <= r.progress
                               THEN file[pos + i] ELSE buf[i]]
                  /\ UNCHANGED <<pc, err>>
             ELSE /\ pc' = "err"
                  /\ err' = IoError
                  /\ UNCHANGED <<pos, buf, filled>>
    /\ UNCHANGED <<file, chunks, header, spec_opt, data_len, reader_fields, iter_fields>>

\* read_into: one pass of the while loop
ReadIntoStep ==
    /\ pc = "read_into"
    /\ filled < Len(buf)
    /\ \E r \in SourceReads(Len(buf) - filled, Len(file) - pos) :
          /\ reads' = Append(reads, r)
          /\ IF ~r.ok
             THEN /\ pc' = "err"
                  /\ err' = SourceError
                  /\ UNCHANGED <<pos, buf, filled>>
             ELSE IF r.progress > 0
             THEN /\ filled' = filled + r.progress
                  /\ pos' = pos + r.progress
                  /\ buf' = [i \in 1..Len(buf) |->
                               IF filled < i /\ i <= filled + r.progress
                               THEN file[pos + (i - filled)] ELSE buf[i]]
                  /\ UNCHANGED <<pc, err>>
             ELSE /\ pc' = "err"
                  /\ err' = IoError
                  /\ UNCHANGED <<pos, buf, filled>>
    /\ UNCHANGED <<file, chunks, header, spec_opt, data_len, reader_fields, iter_fields>>

\* read_into: the loop has ended, Ok(()) is returned
ReadIntoReturn ==
    /\ pc = "read_into"
    /\ filled >= Len(buf)
    /\ pc' = "ok"
    /\ UNCHANGED <<read_into_locals, file, chunks, pos, header, spec_opt, data_len,
                   reader_fields, iter_fields, err>>

ReadIntoNext ==
    \/ ReadIntoStep
    \/ ReadIntoReturn

\* read_into is one sequential call: it runs until it returns
ReadIntoSpec == ReadIntoInit /\ [][ReadIntoNext]_vars /\ WF_vars(ReadIntoNext)

(***************************************************************************)
(* The layout the file was written with, for stating what the reader       *)
(* should find: the offset of each chunk's header and content.             *)
(***************************************************************************)
RECURSIVE HeaderOffset(_, _)
HeaderOffset(cs, i) == IF i = 1 THEN 12 ELSE HeaderOffset(cs, i - 1) + 8 + Len(cs[i - 1].body)
ContentOffset(cs, i) == HeaderOffset(cs, i) + 8
DataChunks(cs) == {i \in 1..Len(cs) : cs[i].kind = "data"}
FirstData(cs) == CHOOSE i \in DataChunks(cs) : \A j \in DataChunks(cs) : i <= j
Opened == pc \in {"reader", "iter"}
JustOpened == pc = "reader" /\ out = <<>> /\ last_next = "none yet"

(***************************************************************************)
(* C1: every reader that new returns has len() % channels = 0 and          *)
(* channels * duration() = len().                                          *)
(***************************************************************************)
C1_DurationAndLenAgree ==
    Opened => /\ len % spec.channels = 0
              /\ spec.channels * duration = len

C1_Witness == pc = "reader" /\ spec.channels = 2 /\ len = 8 /\ duration = 4

(***************************************************************************)
(* C2: over any number of acquisitions of the sample sequence, exactly     *)
(* len() items are yielded: an acquisition continues where the previous    *)
(* one stopped, next() yields an item while fewer than len() were yielded  *)
(* and None from then on, in this and in every later acquisition.          *)
(***************************************************************************)
C2_YieldsLenItemsThenNone ==
    /\ [](Opened => Len(out) <= len)
    /\ [](last_next = "None" => Len(out) = len)
    /\ [][pc = "iter" /\ pc' = "iter" =>
            IF Len(out) < len
            THEN Len(out') = Len(out) + 1 /\ last_next' = "Some"
            ELSE out' = out /\ last_next' = "None"]_vars
    /\ [][pc = "reader" /\ pc' = "iter" => out' = out /\ pos' = pos]_vars
    /\ [][pc = "iter" /\ pc' = "reader" => out' = out /\ pos' = pos]_vars

C2_Witness ==
    /\ pc = "iter"
    /\ last_next = "None"
    /\ len = 4
    /\ Len(out) = 4
    /\ samples_read = 4

(***************************************************************************)
(* C3: 0 <= samples_read <= num_samples in every state of a reader;        *)
(* samples_read is 0 when new returns, never decreases, and only a call    *)
(* of next() changes it.                                                   *)
(***************************************************************************)
C3_SamplesReadBounded ==
    /\ [](0 <= samples_read /\ samples_read <= num_samples)
    /\ [](JustOpened => samples_read = 0)
    /\ [][samples_read' >= samples_read]_vars
    /\ [][samples_read' # samples_read => pc = "iter" /\ pc' = "iter"]_vars

C3_Witness == pc = "iter" /\ num_samples = 3 /\ samples_read = 3 /\ last_next = "None"

(***************************************************************************)
(* C4: every item next() yields advances samples_read by exactly 1, and    *)
(* size_hint (both bounds) is always len() - samples_read, the number of   *)
(* items next() has still to yield.                                        *)
(***************************************************************************)
C4_SizeHintIsRemaining ==
    /\ [](Opened => /\ size_hint[1] = len - samples_read
                    /\ size_hint[2] = size_hint[1]
                    /\ size_hint[1] = len - Len(out))
    /\ [][Len(out') = Len(out) + 1 => samples_read' = samples_read + 1]_vars
    /\ [][out' = out => samples_read' = samples_read]_vars
    /\ [][pc = "iter" /\ pc' = "iter" =>
            IF size_hint[1] > 0 THEN Len(out') = Len(out) + 1 ELSE out' = out]_vars

C4_Witness ==
    /\ pc = "iter"
    /\ len = 4
    /\ samples_read = 3
    /\ size_hint = <<1, 1>>
    /\ \A k \in 1..3 : out[k].ok

(***************************************************************************)
(* C5: new does not decode a sample: when it succeeds the source is at the *)
(* first content byte of the data chunk and samples_read = 0, and when it  *)
(* fails no sample has been decoded.                                       *)
(***************************************************************************)
C5_PositionedAtData ==
    /\ JustOpened => /\ DataChunks(chunks) # {}
                     /\ pos = ContentOffset(chunks, FirstData(chunks))
                     /\ samples_read = 0
    /\ pc = "failed" => out = <<>> /\ samples_read = 0

(***************************************************************************)
(* A PCM, mono, 16-bit file, as the layout describes it.                   *)
(***************************************************************************)
IsPcmMono16(c) ==
    /\ c.kind = "fmt"
    /\ c.d.tag = 1
    /\ c.d.layout = "b16"
    /\ c.d.fields.ch = 1
    /\ c.d.fields.bits = 16
    /\ c.d.fields.ba = 2
    /\ c.d.fields.bps = 2 * c.d.fields.rate

GoodPreamble == Len(file) >= 12 /\ SubSeq(file, 1, 4) = TagRIFF /\ SubSeq(file, 9, 12) = TagWAVE

\* the file is complete up to the end of its first data chunk, and one fmt
\* chunk, the i-th, precedes that data chunk among chunks of other kinds
PcmMono16File(i) ==
    /\ GoodPreamble
    /\ DataChunks(chunks) # {}
    /\ LET j == FirstData(chunks)
       IN  /\ i \in 1..(j - 1)
           /\ IsPcmMono16(chunks[i])
           /\ \A k \in 1..(j - 1) : k # i => chunks[k].kind = "LIST"
           /\ Len(file) >= ContentOffset(chunks, j) + Len(chunks[j].body)

Signed16(lo, hi) == IF hi >= 128 THEN lo + 256 * hi - 65536 ELSE lo + 256 * hi

(***************************************************************************)
(* C6: a PCM, mono, 16-bit file opens with the spec of its fmt chunk and   *)
(* len() = duration() = data length / 2, and read as i16 it yields the     *)
(* little-endian signed 16-bit values of the data bytes, in order.         *)
(***************************************************************************)
C6_PcmMono16EndToEnd ==
    \A i \in 1..Len(chunks) :
        PcmMono16File(i) =>
            LET data == chunks[FirstData(chunks)].body
            IN  /\ pc # "failed"
                /\ Opened =>
                     /\ spec = WavSpec(1, chunks[i].d.fields.rate, 16)
                     /\ len = Len(data) \div 2
                     /\ duration = len
                     /\ \A k \in 1..Len(out) :
                          (\A m \in 1..k : out[m].ty = "i16") =>
                              /\ out[k].ok
                              /\ out[k].val = Signed16(data[2 * k - 1], data[2 * k])
                     /\ last_next = "None" => Len(out) = Len(data) \div 2

C6_Witness ==
    /\ \E i \in 1..Len(chunks) : PcmMono16File(i)
    /\ pc = "iter"
    /\ last_next = "None"
    /\ spec = WavSpec(1, 44100, 16)
    /\ len = 4
    /\ duration = 4
    /\ out = <<[ok |-> TRUE, val |-> 2, ty |-> "i16"], [ok |-> TRUE, val |-> -3, ty |-> "i16"],
               [ok |-> TRUE, val |-> 5, ty |-> "i16"], [ok |-> TRUE, val |-> -7, ty |-> "i16"]>>

(***************************************************************************)
(* The scanner has just read the header of the i-th chunk of the layout.   *)
(***************************************************************************)
ScanningChunk(i) == pc = "chunk" /\ i \in 1..Len(chunks) /\ pos = ContentOffset(chunks, i)
ScanningFmt(i) == ScanningChunk(i) /\ chunks[i].kind = "fmt"

\* the 16 fixed bytes of the i-th chunk are in the file
FixedPresent(i) == Len(chunks[i].body) >= 16 /\ Len(file) >= ContentOffset(chunks, i) + 16

\* the redundant fields agree, in exact arithmetic
FieldsAgree(fl) ==
    /\ fl.ch >= 1
    /\ fl.bits = (fl.ba \div fl.ch) * 8
    /\ IF fl.ba = 0 THEN fl.bps = 0 ELSE fl.bps % fl.ba = 0 /\ fl.bps \div fl.ba = fl.rate

\* the cross-check of these fields divides by no zero and overflows nowhere
NoArithmeticFault(fl) ==
    /\ fl.ch >= 1
    /\ fl.ba \div fl.ch < 8192
    /\ fl.ba = 0 \/ fl.rate <= 65535

\* new has failed while decoding the i-th chunk, a fmt chunk, past its fixed bytes
FailedInFmt(i) ==
    /\ pc = "failed"
    /\ i \in 1..Len(chunks)
    /\ chunks[i].kind = "fmt"
    /\ header.kind = "Fmt"
    /\ pos >= ContentOffset(chunks, i) + 16
    /\ pos <= ContentOffset(chunks, i) + Len(chunks[i].body)

HasGuid(c) == c.kind = "fmt" /\ c.d.tag = 65534 /\ c.d.layout \in {"b40", "b42", "b48"}
ExtensionPresent(i) == Len(file) >= ContentOffset(chunks, i) + 40

C9_FmtLengthFormatError ==
    [][\A i \in 1..Len(chunks) :
         /\ ScanningFmt(i) /\ Len(chunks[i].body) < 16
            => pc' = "failed" /\ err'.kind = "FormatError"
         /\ ScanningFmt(i) /\ FixedPresent(i) /\ chunks[i].d.tag = 1 /\ Len(chunks[i].body) # 16
            => pc' = "failed" /\ err'.kind = "FormatError"]_vars

(***************************************************************************)
(* C10: a fmt chunk with the PCM tag whose bits_per_sample is not 8 or 16  *)
(* makes new fail with FormatError, so every reader built from a PCM fmt   *)
(* chunk has bits_per_sample in {8, 16} and bytes_per_sample =             *)
(* bits_per_sample / 8.                                                    *)
(***************************************************************************)
C10_PcmBitsFormatError ==
    [][\A i \in 1..Len(chunks) :
         /\ ScanningFmt(i) /\ FixedPresent(i) /\ chunks[i].d.tag = 1
              /\ chunks[i].d.fields.bits \notin {8, 16}
            => pc' = "failed" /\ err'.kind = "FormatError"
         /\ ScanningFmt(i) /\ chunks[i].d.tag = 1 /\ pc' = "scan"
            => /\ spec_opt'[1].spec.bits_per_sample \in {8, 16}
               /\ spec_opt'[1].bytes_per_sample * 8 = spec_opt'[1].spec.bits_per_sample]_vars


\* the file with its bytes 4..7, the file-length field, replaced
WithFileLen(f, x) == SubSeq(f, 1, 4) \o LE32(x) \o SubSeq(f, 9, Len(f))
OtherFileLens == {0, 1, 1000, 16777215}

(***************************************************************************)
(* C11: a source whose first 4 bytes are not "RIFF" makes new fail with    *)
(* FormatError, and so does a source whose bytes 8..11 are not "WAVE"; the *)
(* file-length field between them is read and changes nothing: with any    *)
(* other value in it the header is read with the same result.              *)
(***************************************************************************)
C11_PreambleFormatError ==
    /\ [](pc # "new" /\ Len(file) >= 4 /\ SubSeq(file, 1, 4) # TagRIFF
            => pc = "failed" /\ err = FormatError("no RIFF tag found") /\ pos = 4)
    /\ [](pc # "new" /\ Len(file) >= 12 /\ SubSeq(file, 9, 12) # TagWAVE
            => pc = "failed" /\ err.kind = "FormatError")
    /\ [](pc # "new" /\ Len(file) >= 12 /\ SubSeq(file, 1, 4) = TagRIFF
              /\ SubSeq(file, 9, 12) = TagWAVE
            => pos >= 12)
    /\ [][pc = "new" /\ Len(file) >= 8 =>
            \A x \in OtherFileLens :
                LET r == read_wave_header(WithFileLen(file, x), 0)
                IN  err' = r.err /\ pos' = r.pos /\ (pc' = "scan" <=> r.err = NoError)]_vars

C11_Witness ==
    /\ pc = "failed"
    /\ Len(file) >= 12
    /\ SubSeq(file, 1, 4) = TagRIFF
    /\ SubSeq(file, 5, 8) = LE32(1000)
    /\ SubSeq(file, 9, 12) = TagAVI
    /\ err = FormatError("no WAVE tag found")
    /\ pos = 12


(***************************************************************************)
(* C12: a data chunk header met before any fmt chunk was decoded makes new *)
(* fail with FormatError "missing fmt chunk"; new returns a reader only    *)
(* when a fmt chunk lies before the data it stops at; and once the data    *)
(* chunk header is read, new reads nothing more, so the chunks after the   *)
(* data chunk are not read.                                                *)
(***************************************************************************)
C12_DataNeedsFmt ==
    /\ [][\A j \in 1..Len(chunks) :
            ScanningChunk(j) /\ chunks[j].kind = "data"
              /\ (\A i \in 1..(j - 1) : chunks[i].kind # "fmt")
            => pc' = "failed" /\ err' = FormatError("missing fmt chunk")]_vars
    /\ [][pc = "chunk" /\ header.kind = "Data" /\ spec_opt = <<>>
            => pc' = "failed" /\ err' = FormatError("missing fmt chunk")]_vars
    /\ [](JustOpened =>
            \E i \in 1..Len(chunks) :
                chunks[i].kind = "fmt" /\ ContentOffset(chunks, i) + 16 <= pos - 8)
    /\ [][\A j \in 1..Len(chunks) :
            ScanningChunk(j) /\ chunks[j].kind = "data"
            => pos' = ContentOffset(chunks, j) /\ pc' \in {"data", "failed"}]_vars
    /\ [][pc = "data" => pos' = pos /\ pc' \in {"reader", "failed"}]_vars

C12_Witness ==
    /\ pc = "failed"
    /\ err = FormatError("missing fmt chunk")
    /\ Len(chunks) = 3
    /\ chunks[1].kind = "LIST"
    /\ chunks[2].kind = "data"
    /\ chunks[3].kind = "fmt"
    /\ pos = ContentOffset(chunks, 2)


\* a fmt chunk that read_fmt_chunk accepts when all of its bytes are there
WellFormedFmt(c) ==
    /\ c.kind = "fmt"
    /\ FieldsAgree(c.d.fields)
    /\ NoArithmeticFault(c.d.fields)
    /\ \/ c.d.tag = 1 /\ c.d.layout = "b16" /\ c.d.fields.bits \in {8, 16}
       \/ c.d.tag = 65534 /\ c.d.layout = "b40" /\ c.d.ext.cb = 22 /\ c.d.ext.guid = PcmGuid

\* the file ends before the header of any data chunk is complete, and every
\* chunk whose header is in the file is a skipped chunk or a well-formed fmt chunk
ExhaustedBeforeData ==
    /\ GoodPreamble
    /\ \A i \in 1..Len(chunks) :
          \/ Len(file) < ContentOffset(chunks, i)
          \/ chunks[i].kind = "LIST"
          \/ WellFormedFmt(chunks[i])

(***************************************************************************)
(* C13: when the source is exhausted before a data chunk header appears,   *)
(* the scanning loop terminates and new fails with the propagated I/O      *)
(* error, not with FormatError or Unsupported.  Every read of the loop     *)
(* that runs out of bytes fails with the I/O error; each pass of the loop  *)
(* consumes 8 header bytes of the finite source; and on a file that ends   *)
(* before any data chunk header is complete new does fail, with IoError.   *)
(***************************************************************************)
C13_ExhaustionIsIoError ==
    /\ [][pc = "scan" /\ Len(file) - pos < 8
            => pc' = "failed" /\ err' = IoError /\ pos' = Len(file)]_vars
    /\ [][pc = "chunk" /\ header.kind = "Unknown" /\ Len(file) - pos < header.len
            => pc' = "failed" /\ err' = IoError /\ pos' = Len(file)]_vars
    /\ [][pc = "chunk" /\ header.kind = "Fmt" /\ header.len >= 16 /\ Len(file) - pos < 16
            => pc' = "failed" /\ err' = IoError /\ pos' = Len(file)]_vars
    /\ [][pc = "scan" /\ pc' = "chunk" => pos' = pos + 8 /\ pos' <= Len(file)]_vars
    /\ [][pc = "chunk" => pc' \in {"scan", "data", "failed"} /\ pos <= pos' /\ pos' <= Len(file)]_vars
    /\ [](ExhaustedBeforeData =>
            /\ pc \notin {"data", "reader", "iter"}
            /\ (pc = "failed" => err = IoError /\ pos = Len(file)))
    /\ (ExhaustedBeforeData => <>(pc = "failed"))
    /\ <>(pc \in {"failed", "reader", "iter"})

C13_Witness ==
    /\ ExhaustedBeforeData
    /\ pc = "failed"
    /\ err = IoError
    /\ Len(chunks) = 3
    /\ chunks[1].kind = "LIST"
    /\ chunks[2].kind = "fmt"
    /\ chunks[3].kind = "data"
    /\ spec_opt # <<>>
    /\ Len(file) = ContentOffset(chunks, 3) - 1
    /\ pos = Len(file)


\* a next() call: the only step that starts and ends inside a sample sequence
NextCalled == pc = "iter" /\ pc' = "iter"

\* an item has been yielded that is a decode error
SomeErrItem == \E k \in 1..Len(out) : ~out[k].ok

(***************************************************************************)
(* C14: a sample that fails to decode is yielded as exactly one Err item   *)
(* and does not poison the sequence: samples_read has advanced by 1 for    *)
(* it, the reader's position has moved on over the bytes the failed read   *)
(* took (the source is drained), and next() keeps yielding one item per    *)
(* call, after an Err item too, while samples_read < num_samples.          *)
(***************************************************************************)
C14_ErrItemDoesNotPoison ==
    /\ [][NextCalled /\ out' # out /\ ~out'[Len(out')].ok
            => /\ out' = Append(out, out'[Len(out')])
               /\ samples_read' = samples_read + 1
               /\ pos' >= pos
               /\ pos' = Len(file)
               /\ last_next' = "Some"]_vars
    /\ [][NextCalled /\ samples_read < num_samples
            => /\ Len(out') = Len(out) + 1
               /\ samples_read' = samples_read + 1
               /\ last_next' = "Some"]_vars
    /\ [][NextCalled /\ SomeErrItem /\ samples_read < num_samples
            => Len(out') = Len(out) + 1 /\ last_next' = "Some"]_vars
    /\ [](Opened => Len(out) = samples_read)

C14_Witness ==
    /\ pc = "iter"
    /\ Len(out) = 8
    /\ samples_read = 8
    /\ num_samples = 8
    /\ \A k \in 1..4 : out[k].ok
    /\ \A k \in 5..8 : ~out[k].ok
    /\ last_next = "None"


(***************************************************************************)
(* C15: after construction only samples_read (and the cursor of the        *)
(* source) changes: no step of an opened reader, next() and samples()      *)
(* included, changes spec, bytes_per_sample or num_samples, so spec(),     *)
(* len() and duration() keep the values they had when new returned.        *)
(***************************************************************************)
C15_ReaderFieldsFrozen ==
    /\ [][Opened => /\ Opened'
                    /\ UNCHANGED <<spec, bytes_per_sample, num_samples, file>>
                    /\ len' = len
                    /\ duration' = duration
                    /\ samples_read' \in {samples_read, samples_read + 1}
                    /\ pos' >= pos]_vars
    /\ [](Opened => /\ spec = spec_opt[1].spec
                    /\ bytes_per_sample = spec_opt[1].bytes_per_sample
                    /\ num_samples = new(spec_opt[1], data_len).num_samples
                    /\ len = data_len \div spec_opt[1].bytes_per_sample
                    /\ duration = len \div spec_opt[1].spec.channels)

C15_Witness ==
    /\ pc = "iter"
    /\ samples_read = 8
    /\ Len(out) = 8
    /\ last_next = "none yet"
    /\ len = 8
    /\ duration = 4
    /\ spec = WavSpec(2, 8000, 8)


(***************************************************************************)
(* C16: new ends by returning a reader or an error of the closed taxonomy  *)
(* (FormatError, Unsupported, I/O error) and never aborts on an arithmetic *)
(* fault; every reader it returns has channels >= 1 and                    *)
(* bytes_per_sample >= 1.                                                  *)
(***************************************************************************)
C16_NoArithmeticAbort ==
    /\ err.kind # "Panic"
    /\ pc = "failed" => err.kind \in {"FormatError", "Unsupported", "IoError"}
    /\ Opened => spec.channels >= 1 /\ bytes_per_sample >= 1


(***************************************************************************)
(* C17: every chunk the scanner passes over before the data chunk consumes *)
(* its 8 header bytes and exactly its declared length of content bytes, so *)
(* the next chunk header is read at the chunk boundary: an Unknown chunk   *)
(* is skipped by exactly `length` bytes and an accepted fmt chunk leaves   *)
(* the source at the first byte after its declared body.                   *)
(***************************************************************************)
C17_ChunksConsumedWhole ==
    [][/\ pc = "scan" /\ pc' = "chunk" => pos' = pos + 8
       /\ pc = "chunk" /\ pc' = "scan" => pos' = pos + header.len
       /\ \A i \in 1..Len(chunks) :
             ScanningChunk(i) /\ pc' = "scan"
             => pos' = ContentOffset(chunks, i) + Len(chunks[i].body)]_vars


(***************************************************************************)
(* C18: for every reader that new returns, the storage bits are at least   *)
(* the valid bits: 8 * bytes_per_sample >= spec().bits_per_sample.         *)
(***************************************************************************)
C18_StorageCoversValidBits ==
    Opened => 8 * bytes_per_sample >= spec.bits_per_sample


(***************************************************************************)
(* C19: the sample sequence advances the source by the storage width:      *)
(* every item successfully yielded consumes exactly bytes_per_sample       *)
(* bytes, so k items consume k * bytes_per_sample bytes of the data chunk, *)
(* and no next() call takes more than bytes_per_sample bytes, whatever     *)
(* the valid bits and the width of the target sample type.                 *)
(***************************************************************************)
C19_CursorAdvancesByStorageWidth ==
    [][/\ NextCalled /\ out' # out /\ out'[Len(out')].ok => pos' = pos + bytes_per_sample
       /\ NextCalled => pos' - pos <= bytes_per_sample]_vars


(***************************************************************************)
(* C20: new returns a reader only when the data chunk consists of complete *)
(* interleaved frames: the declared data chunk length is a whole multiple  *)
(* of bytes_per_sample * channels, that is num_samples * bytes_per_sample  *)
(* is the data length and num_samples % channels = 0.                      *)
(***************************************************************************)
C20_WholeFramesOnly ==
    Opened => /\ bytes_per_sample * spec_opt[1].spec.channels > 0
              /\ data_len % (bytes_per_sample * spec_opt[1].spec.channels) = 0
              /\ num_samples * bytes_per_sample = data_len
              /\ num_samples % spec_opt[1].spec.channels = 0


\* what the fields a fmt chunk was written from say: the specification and
\* the storage width of its samples
DecodedFmt(d) ==
    WavSpecEx(WavSpec(d.fields.ch, d.fields.rate,
                      IF d.tag = 65534 THEN ValidBits(d) ELSE d.fields.bits),
              d.fields.bits \div 8)

\* a fmt chunk that the format does not allow, or that the reader does not support
InvalidFmt(c) ==
    /\ c.kind = "fmt"
    /\ \/ ~FieldsAgree(c.d.fields)
       \/ c.d.tag \notin {1, 65534}
       \/ c.d.tag = 1 /\ (c.d.layout # "b16" \/ c.d.fields.bits \notin {8, 16})
       \/ c.d.tag = 65534 /\ (c.d.layout \in {"b14", "b16", "b18"} \/ c.d.ext.cb # 22
                                \/ c.d.ext.guid # PcmGuid)

\* the fmt chunks whose fixed fields lie before offset p of the file
FmtsBefore(p) ==
    {i \in 1..Len(chunks) : chunks[i].kind = "fmt" /\ ContentOffset(chunks, i) + 16 <= p}

LastFmtBefore(p) == CHOOSE i \in FmtsBefore(p) : \A j \in FmtsBefore(p) : j <= i

(***************************************************************************)
(* C21: when several fmt chunks precede the data chunk, each is decoded    *)
(* and validated in turn and a later one replaces the earlier one: the     *)
(* reader's spec, bytes_per_sample and num_samples come from the last fmt  *)
(* chunk before the data chunk, and an invalid later fmt chunk makes new   *)
(* fail although an earlier one was valid.                                 *)
(***************************************************************************)
C21_LastFmtWins ==
    /\ [][\A i \in 1..Len(chunks) :
            ScanningFmt(i) /\ pc' = "scan"
            => spec_opt' = <<DecodedFmt(chunks[i].d)>>]_vars
    /\ [][\A i \in 1..Len(chunks) :
            ScanningFmt(i) /\ spec_opt # <<>> /\ NoArithmeticFault(chunks[i].d.fields)
              /\ InvalidFmt(chunks[i])
            => /\ pc' = "failed"
               /\ err'.kind \in {"FormatError", "Unsupported", "IoError"}]_vars
    /\ [](JustOpened =>
            /\ FmtsBefore(pos) # {}
            /\ LET s == DecodedFmt(chunks[LastFmtBefore(pos)].d)
               IN  /\ spec = s.spec
                   /\ bytes_per_sample = s.bytes_per_sample
                   /\ num_samples = data_len \div s.bytes_per_sample)

C21_Witness ==
    /\ JustOpened
    /\ Len(chunks) = 3
    /\ chunks[1] = FmtA
    /\ chunks[2].kind = "fmt"
    /\ chunks[3] = DataChunk(Data8)
    /\ pos = ContentOffset(chunks, 3)
    /\ spec = WavSpec(2, 8000, 8)
    /\ bytes_per_sample = 1
    /\ num_samples = 8

\* new has failed on a second fmt chunk after it had accepted the first
C21_WitnessLaterInvalid ==
    /\ pc = "failed"
    /\ Len(chunks) = 3
    /\ chunks[1] = FmtA
    /\ InvalidFmt(chunks[2])
    /\ chunks[3] = DataChunk(Data8)
    /\ spec_opt = <<DecodedFmt(FmtA.d)>>
    /\ err = Unsupported


\* the read_into followed is in its loop or has returned
InReadInto == pc \in {"read_into", "ok", "err"}

\* the last read call made no progress: Ok(0), or an error of the source
LastReadStalled == reads # <<>> /\ (~reads[Len(reads)].ok \/ reads[Len(reads)].progress = 0)

(***************************************************************************)
(* C22: read_into on a buffer of n bytes ends after at most n read calls.  *)
(* It returns Ok only when exactly n bytes were collected, in the order of *)
(* the source, however the source splits them into partial reads of        *)
(* positive size; it returns the short-read error as soon as a read call   *)
(* makes zero progress before n bytes are collected; and it never takes    *)
(* more than n bytes from the source.                                      *)
(***************************************************************************)
C22_ReadIntoExact ==
    /\ [](InReadInto => /\ Len(reads) <= Len(buf)
                        /\ filled <= Len(buf)
                        /\ filled <= pos
                        /\ \A i \in 1..filled : buf[i] = file[pos - filled + i])
    /\ [][InReadInto => pos' - pos = filled' - filled /\ Len(reads') <= Len(reads) + 1]_vars
    /\ [](pc = "ok" => /\ filled = Len(buf)
                       /\ buf = SubSeq(file, pos - filled + 1, pos)
                       /\ \A k \in 1..Len(reads) : reads[k].ok /\ reads[k].progress > 0
                       /\ LET r == read_into(file, pos - filled, Len(buf))
                          IN  r.ok /\ r.buf = buf /\ r.pos = pos)
    /\ [][pc = "read_into" /\ reads' # reads
            /\ reads'[Len(reads')].ok /\ reads'[Len(reads')].progress = 0
            => pc' = "err" /\ err' = IoError /\ filled < Len(buf)]_vars
    /\ [](pc = "err" => /\ filled < Len(buf)
                        /\ LastReadStalled
                        /\ \A k \in 1..(Len(reads) - 1) : reads[k].ok /\ reads[k].progress > 0
                        /\ (reads[Len(reads)].ok <=> err = IoError))
    /\ [](pc = "read_into" => ~LastReadStalled)
    /\ <>(pc \in {"ok", "err"})

C22_Witness ==
    /\ pc = "ok"
    /\ Len(buf) = 4
    /\ Len(reads) = 3
    /\ reads[1].progress = 1
    /\ reads[2].progress = 2
    /\ reads[3].progress = 1
    /\ pos = 5
    /\ buf = <<20, 30, 40, 50>>

\* read_into has failed on a read of zero bytes after two partial reads
C22_WitnessShortRead ==
    /\ pc = "err"
    /\ err = IoError
    /\ Len(buf) = 4
    /\ Len(reads) = 3
    /\ filled = 3
    /\ pos = 3
    /\ Len(file) = 5
    /\ buf = <<10, 20, 30, 255>>

====
